---- MODULE Spec2Model ----
(***************************************************************************)
(* Model of the SCM bookkeeping of packages/scm: ScmRepository (resource   *)
(* list with a selection cursor), ScmInput (value / issue with change      *)
(* notification) and ScmService (registry of repositories with a selected  *)
(* repository).                                                            *)
(*                                                                         *)
(* Emitters are modelled by the number of fire() calls an operation makes; *)
(* `last` records, for the operation that produced the current state, its  *)
(* name, the state it started from, its return value and those counts.     *)
(***************************************************************************)
EXTENDS Integers, Sequences, FiniteSets, TLC

(* ------------------------------ bounds --------------------------------- *)

\* number of distinct ScmResource objects a provider can hand out
NumResources == 3
\* most groups a provider has
MaxGroups == 2
\* selectedIndex is not followed below -MaxUnderflow
MaxUnderflow == 2
\* most validations in flight at once
MaxPending == 2
\* most file changes of a Git status
MaxChanges == 2
\* most repositories ScmService creates in a run
MaxRepositories == 3
\* number of distinct provider ids
NumProviderIds == 3

(* --------------------------- value domains ----------------------------- *)

\* `undefined` where a ScmResource is expected
NoResource == 0

Resources == 1..NumResources

\* texts of the input box
Values == {"", " ", "a", "b"}

\* `undefined` where a ScmInputIssue is expected
NoIssue == [type |-> "undefined", message |-> ""]

Issues ==
    { [type |-> "warning", message |-> "long"],
      [type |-> "error", message |-> "long"],
      [type |-> "error", message |-> "Please provide an input"] }

IssueOrUndefined == Issues \cup {NoIssue}

\* `undefined` where a ScmRepository is expected
NoRepository == 0

\* the values of provider.id
ProviderIds == 1..NumProviderIds

Range(s) == { s[i] : i \in 1..Len(s) }

IsInjective(s) == \A i, j \in 1..Len(s) : s[i] = s[j] => i = j

\* the resource arrays a group can hold: distinct resource objects
GroupResources ==
    { s \in UNION { [1..n -> Resources] : n \in 0..NumResources } : IsInjective(s) }

\* the values of provider.groups: a resource belongs to one group
ProviderGroups ==
    { g \in UNION { [1..n -> GroupResources] : n \in 0..MaxGroups } :
        \A i, j \in 1..Len(g) : i # j => Range(g[i]) \cap Range(g[j]) = {} }

(* ------------------------------ state ---------------------------------- *)

VARIABLES
    groups,          \* ScmRepository.provider.groups, each group by its resources
    resources,       \* ScmRepository._resources
    selectedIndex,   \* ScmRepository.selectedIndex
    disposed,        \* ScmRepository.toDispose has been disposed
    hasValidator,    \* ScmInput.options.validator is set
    value,           \* ScmInput._value
    issue,           \* ScmInput._issue
    pending,         \* values whose validation has started and not completed
    last,            \* the operation that led to this state
    created,         \* created[r]: provider.id of the r-th repository ScmService created
    repositories,    \* ScmService._repositories: <<id, repository>> entries, insertion order
    selectedRepository,  \* ScmService._selectedRepository
    disposedRepositories, \* repositories whose ScmRepository.dispose() has run
    scmStatus,       \* GitScmProvider.status: <<>> or <<status>>
    statusBarText    \* text of the provider's GIT_CHECKOUT status bar command, <<>> if none

repoVars == <<groups, resources, selectedIndex, disposed, hasValidator, value, issue, pending>>

serviceVars == <<created, repositories, selectedRepository, disposedRepositories>>

gitVars == <<scmStatus, statusBarText>>

vars == <<repoVars, serviceVars, gitVars, last>>

(* ------------------------- ScmRepository ------------------------------- *)

\* Array.prototype.indexOf
IndexOf(arr, x) ==
    IF \E i \in 1..Len(arr) : arr[i] = x
    THEN (CHOOSE i \in 1..Len(arr) : arr[i] = x /\ \A j \in 1..(i - 1) : arr[j] # x) - 1
    ELSE -1

\* get selectedResource(): this._resources[this.selectedIndex]
selectedResourceAt(arr, idx) ==
    IF idx >= 0 /\ idx < Len(arr) THEN arr[idx + 1] ELSE NoResource

selectedResource == selectedResourceAt(resources, selectedIndex)

\* set selectedResource(r): the index the cursor gets
setSelectedResourceIndex(arr, r) ==
    IF r # NoResource THEN IndexOf(arr, r) ELSE -1

RECURSIVE pushGroups(_, _)
\* the loop of updateResources: push(...group.resources) for each group
pushGroups(arr, gs) ==
    IF gs = <<>> THEN arr ELSE pushGroups(arr \o Head(gs), Tail(gs))

\* updateResources() without `_resources.length = 0`
updateResourcesArrayKept(arr, gs) == pushGroups(arr, gs)

\* updateResources(): _resources.length = 0, then the loop
updateResourcesArray(arr, gs) == pushGroups(SubSeq(arr, 1, 0), gs)

\* updateSelection(): selectedResource = selectedResource, on the rebuilt array
updateSelectionIndex(arr, idx) ==
    setSelectedResourceIndex(arr, selectedResourceAt(arr, idx))

\* selectNextResource(): the cursor and the fireDidChange() calls
selectNextResourceStep(arr, idx) ==
    IF idx # 0 /\ idx < Len(arr) - 1
    THEN [index |-> idx + 1, fired |-> 1]
    ELSE IF Len(arr) # 0 /\ idx = -1
         THEN [index |-> 0, fired |-> 1]
         ELSE [index |-> idx, fired |-> 0]

\* selectPreviousResource(): the cursor and the fireDidChange() calls
selectPreviousResourceStep(arr, idx) ==
    IF idx # 0
    THEN [index |-> idx - 1, fired |-> 1]
    ELSE [index |-> idx, fired |-> 0]

\* the repository without the listener on input.onDidChange
relayDropped(n) == 0

\* the listeners the constructor registers relay until toDispose is disposed
relay(n) == IF disposed THEN 0 ELSE n

\* a repository operation: the cursor and selection it started from (where the
\* operation reads them), the fireDidChange() calls it made, what it returned
RepoOp(name, preIndex, preSelected, fired, ret) ==
    [ op |-> name,
      arg |-> NoResource,
      preIndex |-> preIndex,
      preSelected |-> preSelected,
      preValue |-> "",
      preIssue |-> NoIssue,
      prePending |-> <<>>,
      fired |-> fired,
      inputFired |-> 0,
      ret |-> ret ]

\* an input operation: what was assigned, the value, issue and validations in
\* flight it started from, the fire() calls of the input's emitter and the
\* fireDidChange() calls of the repository
InputOp(name, arg, fired, inputFired) ==
    [ op |-> name,
      arg |-> arg,
      preIndex |-> -1,
      preSelected |-> NoResource,
      preValue |-> value,
      preIssue |-> issue,
      prePending |-> pending,
      fired |-> fired,
      inputFired |-> inputFired,
      ret |-> NoResource ]

\* the provider changes its groups and fires onDidChange: updateResources()
ProviderChange(g) ==
    /\ ~disposed
    /\ LET arr == updateResourcesArray(resources, g) IN
       /\ groups' = g
       /\ resources' = arr
       /\ selectedIndex' = updateSelectionIndex(arr, selectedIndex)
       /\ last' = RepoOp("providerChange", -1, selectedResource, 1, NoResource)
    /\ UNCHANGED <<disposed, hasValidator, value, issue, pending, serviceVars, gitVars>>

\* repository.selectedResource = r
SetSelectedResource(r) ==
    /\ selectedIndex' = setSelectedResourceIndex(resources, r)
    /\ last' = RepoOp("setSelectedResource", -1, NoResource, 1, NoResource)
    /\ UNCHANGED <<groups, resources, disposed, hasValidator, value, issue, pending, serviceVars, gitVars>>

SelectNextResource ==
    /\ LET s == selectNextResourceStep(resources, selectedIndex) IN
       /\ selectedIndex' = s.index
       /\ last' = RepoOp("selectNextResource", selectedIndex, selectedResource, s.fired,
                         selectedResourceAt(resources, s.index))
    /\ UNCHANGED <<groups, resources, disposed, hasValidator, value, issue, pending, serviceVars, gitVars>>

SelectPreviousResource ==
    /\ selectedIndex > -MaxUnderflow
    /\ LET s == selectPreviousResourceStep(resources, selectedIndex) IN
       /\ selectedIndex' = s.index
       /\ last' = RepoOp("selectPreviousResource", selectedIndex, selectedResource, s.fired,
                         selectedResourceAt(resources, s.index))
    /\ UNCHANGED <<groups, resources, disposed, hasValidator, value, issue, pending, serviceVars, gitVars>>

\* repository.dispose(): toDispose.dispose()
DisposeRepository ==
    /\ ~disposed
    /\ disposed' = TRUE
    /\ last' = RepoOp("dispose", -1, NoResource, 0, NoResource)
    /\ UNCHANGED <<groups, resources, selectedIndex, hasValidator, value, issue, pending, serviceVars, gitVars>>

(* ----------------------------- ScmInput -------------------------------- *)

\* the validator of the options: a pure function of the text
validator(v) ==
    CASE v = "" -> NoIssue
      [] v = "a" -> [type |-> "warning", message |-> "long"]
      [] OTHER -> [type |-> "error", message |-> "long"]

\* the keys of `x || {}`
JsonKeys(x) == IF x = NoIssue THEN {} ELSE {"type", "message"}

\* a comparison of the issues' types alone
deepEqualTypes(a, b) == a.type = b.type

\* JSONExt.deepEqual(a || {}, b || {})
deepEqual(a, b) ==
    /\ JsonKeys(a) = JsonKeys(b)
    /\ \A k \in JsonKeys(a) : a[k] = b[k]

\* set value(v) without the early return for an equal value
setValueStepUnguarded(old, v) == [value |-> v, fired |-> 1, validate |-> TRUE]

\* set value(v): the stored value, the fire() calls, whether validate() runs
setValueStep(old, v) ==
    IF old = v
    THEN [value |-> old, fired |-> 0, validate |-> FALSE]
    ELSE [value |-> v, fired |-> 1, validate |-> TRUE]

\* set issue(i): the stored issue and the fire() calls
setIssueStep(old, i) ==
    IF deepEqual(old, i)
    THEN [issue |-> old, fired |-> 0]
    ELSE [issue |-> i, fired |-> 1]

\* input.value = v
SetInputValue(v) ==
    /\ hasValidator /\ v # value => Len(pending) < MaxPending
    /\ LET s == setValueStep(value, v) IN
       /\ value' = s.value
       /\ pending' = IF s.validate /\ hasValidator THEN Append(pending, s.value) ELSE pending
       /\ last' = InputOp("setValue", v, relay(s.fired), s.fired)
    /\ UNCHANGED <<groups, resources, selectedIndex, disposed, hasValidator, issue, serviceVars, gitVars>>

\* input.issue = i
SetInputIssue(i) ==
    /\ LET s == setIssueStep(issue, i) IN
       /\ issue' = s.issue
       /\ last' = InputOp("setIssue", i, relay(s.fired), s.fired)
    /\ UNCHANGED <<groups, resources, selectedIndex, disposed, hasValidator, value, pending, serviceVars, gitVars>>

\* validate(): the validator's promise for pending[k] resolves, issue = result
ValidationCompletes(k) ==
    /\ k \in 1..Len(pending)
    /\ LET s == setIssueStep(issue, validator(pending[k])) IN
       /\ issue' = s.issue
       /\ last' = InputOp("validated", validator(pending[k]), relay(s.fired), s.fired)
    /\ pending' = SubSeq(pending, 1, k - 1) \o SubSeq(pending, k + 1, Len(pending))
    /\ UNCHANGED <<groups, resources, selectedIndex, disposed, hasValidator, value, serviceVars, gitVars>>

(* ---------------------------- ScmService ------------------------------- *)

\* registerScmProvider without the check for a registered id
hasUnchecked(map, id) == FALSE

\* this._repositories.has(id)
has(map, id) == \E i \in 1..Len(map) : map[i][1] = id

\* this._repositories.delete(id)
delete(map, id) == SelectSeq(map, LAMBDA e : e[1] # id)

\* this._repositories.set(id, repository), for an id the map does not hold
set(map, id, repository) == Append(map, <<id, repository>>)

\* the value of the last entry instead of the first
lastValue(map) == IF map = <<>> THEN NoRepository ELSE map[Len(map)][2]

\* this._repositories.values().next().value
firstValue(map) == IF map = <<>> THEN NoRepository ELSE map[1][2]

\* registerScmProvider testing the size before the repository is added
selectsOnRegisterEmpty(map) == Len(map) = 0

\* registerScmProvider selecting every repository it adds
selectsOnRegisterAlways(map) == TRUE

\* registerScmProvider: this._repositories.size === 1
selectsOnRegister(map) == Len(map) = 1

\* get repositories(): [...this._repositories.values()]
repositoryList(map) == [i \in 1..Len(map) |-> map[i][2]]

\* a service operation: its argument, the registry and selection it started
\* from, whether it threw, what it returned, the fire() calls of the three
\* emitters and the order of its steps
ServiceOp(name, arg, threw, ret, added, removed, selectionFired, steps) ==
    [ op |-> name,
      arg |-> arg,
      preRepositories |-> repositoryList(repositories),
      preSelected |-> selectedRepository,
      threw |-> threw,
      ret |-> ret,
      added |-> added,
      removed |-> removed,
      selectionFired |-> selectionFired,
      steps |-> steps ]

\* registerScmProvider(provider) for a provider.id the registry holds: throws
registerDuplicate(id) ==
    /\ has(repositories, id)
    /\ last' = ServiceOp("registerScmProvider", id, TRUE, NoRepository, 0, 0, 0, <<>>)
    /\ UNCHANGED serviceVars

\* registerScmProvider(provider) for a new provider.id
registerNew(id) ==
    /\ ~has(repositories, id)
    /\ Len(created) < MaxRepositories
    /\ LET repository == Len(created) + 1
           map == set(repositories, id, repository)
           select == selectsOnRegister(map)
       IN
       /\ created' = Append(created, id)
       /\ repositories' = map
       /\ selectedRepository' = IF select THEN repository ELSE selectedRepository
       /\ last' = ServiceOp("registerScmProvider", id, FALSE, repository, 1, 0,
                            IF select THEN 1 ELSE 0,
                            <<"set", "fireAdd">> \o
                                (IF select THEN <<"select", "fireSelected">> ELSE <<>>))
    /\ UNCHANGED disposedRepositories

RegisterScmProvider(id) ==
    /\ \/ registerDuplicate(id)
       \/ registerNew(id)
    /\ UNCHANGED <<repoVars, gitVars>>

\* the replaced dispose updating the selection before the repository's own
\* disposal and the onDidRemoveRepository event
disposeStepsSelectEarly(select) ==
    <<"delete">> \o (IF select THEN <<"select", "fireSelected">> ELSE <<>>)
        \o <<"dispose", "fireRemove">>

\* the statements of the replaced dispose, in the order they run
disposeSteps(select) ==
    <<"delete", "dispose", "fireRemove">> \o
        (IF select THEN <<"select", "fireSelected">> ELSE <<>>)

\* repository.dispose() as registerScmProvider replaced it
disposeRegistered(repository) ==
    /\ LET map == delete(repositories, created[repository])
           select == selectedRepository = repository
       IN
       /\ repositories' = map
       /\ disposedRepositories' = disposedRepositories \cup {repository}
       /\ selectedRepository' = IF select THEN firstValue(map) ELSE selectedRepository
       /\ last' = ServiceOp("dispose", repository, FALSE, NoRepository, 0, 1,
                            IF select THEN 1 ELSE 0,
                            disposeSteps(select))
    /\ UNCHANGED created

DisposeRegistered(repository) ==
    /\ repository \in 1..Len(created)
    /\ disposeRegistered(repository)
    /\ UNCHANGED <<repoVars, gitVars>>

\* service.selectedRepository = repository
SetSelectedRepository(repository) ==
    /\ repository \in Range(repositoryList(repositories)) \cup {NoRepository}
    /\ selectedRepository' = repository
    /\ last' = ServiceOp("setSelectedRepository", repository, FALSE, NoRepository,
                         0, 0, 1, <<"select", "fireSelected">>)
    /\ UNCHANGED <<created, repositories, disposedRepositories, repoVars, gitVars>>

(* ------------------- accept-input command (Git commit) ------------------ *)

\* String.prototype.trim on the texts of the input box
trim(v) == IF v = " " THEN "" ELSE v

\* the issue executeInputCommand sets for a blank input
ProvideInput == [type |-> "error", message |-> "Please provide an input"]

\* the issues GitContribution.commit sets
ProvideCommitMessage == [type |-> "error", message |-> "Please provide a commit message"]

NoChangesAdded == [type |-> "error", message |-> "No changes added to commit"]

\* the input as a handler sees it while it runs, with the fire() calls so far
currentInput == [value |-> value, issue |-> issue, pending |-> pending, fired |-> 0]

\* input.issue = i inside a handler
assignIssue(inp, i) ==
    LET s == setIssueStep(inp.issue, i) IN
    [inp EXCEPT !.issue = s.issue, !.fired = inp.fired + s.fired]

\* input.value = v inside a handler
assignValue(inp, v) ==
    LET s == setValueStep(inp.value, v) IN
    [inp EXCEPT !.value = s.value,
                !.fired = inp.fired + s.fired,
                !.pending = IF s.validate /\ hasValidator
                            THEN Append(inp.pending, s.value)
                            ELSE inp.pending]

\* GitContribution.commit() as the command handler calls it (no options), on
\* the repository of the widget; gitStatus is what git.status gives ("staged",
\* "unstaged", or "error" when it rejects), commitOk whether git.commit resolves
commit(inp, gitStatus, commitOk) ==
    LET message == inp.value
        i1 == assignIssue(inp, NoIssue)
        i2 == IF trim(message) = "" THEN assignIssue(i1, ProvideCommitMessage) ELSE i1
        asksStatus == i2.issue = NoIssue
        i3 == IF asksStatus /\ gitStatus = "unstaged"
              THEN assignIssue(i2, NoChangesAdded)
              ELSE i2
    IN
    IF asksStatus /\ gitStatus = "error"
    THEN [input |-> i2, outcome |-> "statusFailed", threw |-> TRUE]
    ELSE IF i3.issue = NoIssue
         THEN IF commitOk
              THEN [input |-> assignValue(i3, ""), outcome |-> "committed", threw |-> FALSE]
              ELSE [input |-> i3, outcome |-> "commitFailed", threw |-> FALSE]
         ELSE [input |-> i3, outcome |-> "rejected", threw |-> FALSE]

\* executeInputCommand after `await executeCommand(...)`: input.value = ''
afterCommand(c) ==
    IF c.threw THEN c ELSE [c EXCEPT !.input = assignValue(c.input, "")]

\* ScmWidget.executeInputCommand for a repository whose acceptInputCommand is
\* the Git commit command; trigger is the event ("click", "ctrlEnter", or
\* "otherKey" for any other key)
executeInputCommand(inp, trigger, gitStatus, commitOk) ==
    IF trigger = "otherKey"
    THEN [input |-> inp, outcome |-> "ignored", threw |-> FALSE]
    ELSE LET w1 == assignIssue(inp, NoIssue)
             w2 == IF trim(w1.value) = "" THEN assignIssue(w1, ProvideInput) ELSE w1
         IN
         IF w2.issue = NoIssue
         THEN afterCommand(commit(w2, gitStatus, commitOk))
         ELSE [input |-> w2, outcome |-> "blank", threw |-> FALSE]

ExecuteInputCommand(trigger, gitStatus, commitOk) ==
    /\ LET r == executeInputCommand(currentInput, trigger, gitStatus, commitOk) IN
       /\ value' = r.input.value
       /\ issue' = r.input.issue
       /\ pending' = r.input.pending
       /\ last' = InputOp("executeInputCommand", r.outcome,
                          relay(r.input.fired), r.input.fired)
    /\ UNCHANGED <<groups, resources, selectedIndex, disposed, hasValidator, serviceVars, gitVars>>

(* ------------------------- Git status bar ------------------------------- *)

\* the values of GitFileChange.status that occur in the model
GitFileStatuses == {"New", "Modified", "Conflicted"}

GitFileChanges == [status : GitFileStatuses, staged : BOOLEAN]

\* texts are sequences of characters; the empty text is falsy, like undefined
Branches == {<<>>, <<"m", "a", "i", "n">>}

Heads == {<<>>, <<"0", "1", "2", "3", "4", "5", "6", "7", "8", "9">>}

\* the status of a Git event
GitStatuses ==
    [ branch : Branches,
      currentHead : Heads,
      changes : UNION { [1..n -> GitFileChanges] : n \in 0..MaxChanges } ]

\* changes.some(c => c.status === GitFileStatus.Conflicted)
hasConflicts(changes) == \E i \in 1..Len(changes) : changes[i].status = "Conflicted"

\* !changes.some(c => !c.staged)
allStaged(changes) == ~(\E i \in 1..Len(changes) : ~changes[i].staged)

\* the marker with the test for staged changes before the one for conflicts
dirtyMarkerStagedFirst(changes) ==
    IF Len(changes) > 0
    THEN IF hasConflicts(changes) \/ allStaged(changes)
         THEN IF allStaged(changes) THEN <<"+">> ELSE <<"!">>
         ELSE <<"*">>
    ELSE <<>>

\* onGitEvent: the value of `dirty`
dirtyMarker(changes) ==
    IF Len(changes) > 0
    THEN LET conflicts == hasConflicts(changes)
             staged == allStaged(changes)
         IN
         IF conflicts \/ staged
         THEN IF conflicts THEN <<"!">> ELSE IF staged THEN <<"+">> ELSE <<>>
         ELSE <<"*">>
    ELSE <<>>

\* String.prototype.substring(0, n)
substring(text, n) == SubSeq(text, 1, IF Len(text) < n THEN Len(text) ELSE n)

\* onGitEvent: the value of `branch`
branchName(status) ==
    IF status.branch # <<>>
    THEN status.branch
    ELSE IF status.currentHead # <<>>
         THEN substring(status.currentHead, 8)
         ELSE <<"N", "O", "-", "H", "E", "A", "D">>

\* `$(code-fork) ${branch}${dirty}`
checkoutText(status) ==
    <<"$(code-fork)", " ">> \o branchName(status) \o dirtyMarker(status.changes)

\* repositoryTracker.onGitEvent: the listener of onStart; hasProvider is whether
\* repositoryProvider.selectedScmProvider is defined (the sync status bar
\* entry the listener also refreshes is not part of the state)
GitEvent(status, hasProvider) ==
    /\ IF hasProvider
       THEN /\ scmStatus' = <<status>>
            /\ statusBarText' = checkoutText(status)
       ELSE UNCHANGED gitVars
    /\ last' = [op |-> "gitEvent", hasProvider |-> hasProvider]
    /\ UNCHANGED <<repoVars, serviceVars>>

(* ------------------------- specifications ------------------------------ *)

\* new ScmService(): the field initialisers
InitService ==
    /\ created = <<>>
    /\ repositories = <<>>
    /\ selectedRepository = NoRepository
    /\ disposedRepositories = {}

\* the Git provider before the first status event
InitGit ==
    /\ scmStatus = <<>>
    /\ statusBarText = <<>>

\* new ScmInput(options): the field initialisers
InitInput ==
    /\ value = ""
    /\ issue = NoIssue
    /\ pending = <<>>

\* new ScmRepository(provider, options): field initialisers, then updateResources()
InitRepository ==
    /\ groups \in ProviderGroups
    /\ resources = updateResourcesArray(<<>>, groups)
    /\ selectedIndex = updateSelectionIndex(resources, -1)
    /\ disposed = FALSE
    /\ InitInput
    /\ last = [ op |-> "construct", arg |-> NoResource, preIndex |-> -1,
                preSelected |-> NoResource, preValue |-> "", preIssue |-> NoIssue,
                prePending |-> <<>>, fired |-> 1, inputFired |-> 0, ret |-> NoResource ]

\* a repository of a provider registered without an input validator
Init ==
    /\ hasValidator = FALSE
    /\ InitRepository
    /\ InitService
    /\ InitGit

Next ==
    \/ \E g \in ProviderGroups : ProviderChange(g)
    \/ \E r \in Resources \cup {NoResource} : SetSelectedResource(r)
    \/ SelectNextResource
    \/ SelectPreviousResource
    \/ DisposeRepository

Spec == Init /\ [][Next]_vars

\* the input of a repository whose provider has no resources, with or without
\* a validator; the provider fires onDidChange with its groups as they are
InitInputOnly ==
    /\ hasValidator \in BOOLEAN
    /\ InitRepository
    /\ groups = <<>>
    /\ InitService
    /\ InitGit

NextInput ==
    \/ \E v \in Values : SetInputValue(v)
    \/ \E i \in IssueOrUndefined : SetInputIssue(i)
    \/ \E k \in 1..MaxPending : ValidationCompletes(k)
    \/ ProviderChange(groups)
    \/ DisposeRepository

SpecInput == InitInputOnly /\ [][NextInput]_vars

\* the service: providers register, repositories are disposed (also again),
\* a registered repository is selected
InitServiceOnly ==
    /\ InitService
    /\ InitGit
    /\ hasValidator = FALSE
    /\ groups = <<>>
    /\ resources = <<>>
    /\ selectedIndex = -1
    /\ disposed = FALSE
    /\ InitInput
    /\ last = ServiceOp("construct", NoRepository, FALSE, NoRepository, 0, 0, 0, <<>>)

NextService ==
    \/ \E id \in ProviderIds : RegisterScmProvider(id)
    \/ \E r \in 1..MaxRepositories : DisposeRegistered(r)
    \/ \E r \in 0..MaxRepositories : SetSelectedRepository(r)

SpecService == InitServiceOnly /\ [][NextService]_vars

\* the service with registrations and disposals only: nothing assigns
\* selectedRepository from outside
NextRegistry ==
    \/ \E id \in ProviderIds : RegisterScmProvider(id)
    \/ \E r \in 1..MaxRepositories : DisposeRegistered(r)

SpecRegistry == InitServiceOnly /\ [][NextRegistry]_vars

\* an input with a validator whose value alone is assigned: the validations
\* started by the assignments complete in any order
InitValidation ==
    /\ hasValidator = TRUE
    /\ InitRepository
    /\ groups = <<>>
    /\ InitService
    /\ InitGit

NextValidation ==
    \/ \E v \in Values : SetInputValue(v)
    \/ \E k \in 1..MaxPending : ValidationCompletes(k)

SpecValidation == InitValidation /\ [][NextValidation]_vars

\* the commit box of a Git repository, with or without a validator: the user
\* types, then clicks the commit button or presses a key in the box
InitCommit ==
    /\ hasValidator \in BOOLEAN
    /\ InitRepository
    /\ groups = <<>>
    /\ InitService
    /\ InitGit

NextCommit ==
    \/ \E v \in Values : SetInputValue(v)
    \/ \E trigger \in {"click", "ctrlEnter", "otherKey"},
          gitStatus \in {"staged", "unstaged", "error"},
          commitOk \in BOOLEAN :
            ExecuteInputCommand(trigger, gitStatus, commitOk)
    \/ \E k \in 1..(MaxPending + 1) : ValidationCompletes(k)

SpecCommit == InitCommit /\ [][NextCommit]_vars

\* the Git contribution after onStart: status events arrive
InitGitOnly ==
    /\ InitGit
    /\ InitService
    /\ hasValidator = FALSE
    /\ groups = <<>>
    /\ resources = <<>>
    /\ selectedIndex = -1
    /\ disposed = FALSE
    /\ InitInput
    /\ last = [op |-> "onStart", hasProvider |-> FALSE]

NextGit ==
    \E status \in GitStatuses, hasProvider \in BOOLEAN : GitEvent(status, hasProvider)

SpecGit == InitGitOnly /\ [][NextGit]_vars

(* ------------------------------ claims --------------------------------- *)

\* C1: in every reachable state of the repository the cursor selectedIndex is
\* -1 (no selection) or a valid index of resources.
C1_SelectedIndexInRange ==
    \/ selectedIndex = -1
    \/ (0 <= selectedIndex /\ selectedIndex < Len(resources))

\* C2: selectNextResource called with the resource at index i selected, i not
\* the last index, moves the cursor to i + 1, fires onDidChange once and
\* returns resources[i + 1].
C2_SelectNextAdvances ==
    (/\ last.op = "selectNextResource"
     /\ 0 <= last.preIndex
     /\ last.preIndex < Len(resources) - 1)
    => (/\ selectedIndex = last.preIndex + 1
        /\ last.fired = 1
        /\ last.ret = resources[last.preIndex + 2])

\* C3: selectNextResource at the boundaries: with no selection (cursor -1) and
\* a non-empty list it selects index 0 and fires once; with the last resource
\* selected, or with an empty list, it leaves the cursor where it was, fires
\* nothing and returns the current selectedResource.
C3_SelectNextBoundaries ==
    last.op = "selectNextResource" =>
        /\ (last.preIndex = -1 /\ Len(resources) > 0)
             => (selectedIndex = 0 /\ last.fired = 1)
        /\ (Len(resources) = 0 \/ last.preIndex = Len(resources) - 1)
             => (/\ selectedIndex = last.preIndex
                 /\ last.fired = 0
                 /\ last.ret = selectedResource)

\* C4: selectPreviousResource moves the cursor from i > 0 to i - 1 and fires
\* once; with the first resource selected or nothing selected it leaves the
\* cursor where it was and fires nothing; it returns the resulting
\* selectedResource in all cases.
C4_SelectPrevious ==
    last.op = "selectPreviousResource" =>
        /\ last.preIndex > 0
             => (selectedIndex = last.preIndex - 1 /\ last.fired = 1)
        /\ (last.preIndex = 0 \/ last.preSelected = NoResource)
             => (selectedIndex = last.preIndex /\ last.fired = 0)
        /\ last.ret = selectedResource

\* C5: assigning ScmInput.value fires the input's onDidChange exactly once when
\* the new value differs from the stored one (and stores it); when it equals
\* the stored value nothing changes and nothing fires.
C5_ValueAssignment ==
    last.op = "setValue" =>
        IF last.arg # last.preValue
        THEN value = last.arg /\ last.inputFired = 1
        ELSE /\ value = last.preValue
             /\ issue = last.preIssue
             /\ pending = last.prePending
             /\ last.inputFired = 0
             /\ last.fired = 0

\* a differing value was assigned to an input with a validator
C5_Witness ==
    /\ last.op = "setValue"
    /\ last.arg # last.preValue
    /\ last.preValue # ""
    /\ hasValidator
    /\ last.inputFired = 1

\* C6: until the repository is disposed, every onDidChange of its input is
\* relayed as exactly one onDidChange of the repository, and every change
\* notification of its provider results in exactly one.
C6_RelayedOnce ==
    /\ (last.op \in {"setValue", "setIssue", "validated"} /\ ~disposed)
         => last.fired = last.inputFired
    /\ last.op = "providerChange" => last.fired = 1

\* a completed validation changed the issue of a live repository's input
C6_Witness ==
    /\ last.op = "validated"
    /\ ~disposed
    /\ last.inputFired = 1
    /\ last.fired = 1

RECURSIVE C7_Concatenation(_)
\* the groups' resources one after the other, in group order
C7_Concatenation(gs) ==
    IF Len(gs) = 0
    THEN <<>>
    ELSE C7_Concatenation(SubSeq(gs, 1, Len(gs) - 1)) \o gs[Len(gs)]

\* C7: after construction and after every provider change, resources is the
\* concatenation of the groups' resources, in group order and in each group's
\* resource order.
C7_ResourcesAreConcatenation ==
    last.op \in {"construct", "providerChange"}
        => resources = C7_Concatenation(groups)

\* a provider change to two non-empty groups while a resource was selected
C7_Witness ==
    /\ last.op = "providerChange"
    /\ last.preSelected # NoResource
    /\ Len(groups) = 2
    /\ groups[1] # <<>>
    /\ groups[2] # <<>>
    /\ Len(resources) = 3

\* the provider ids of the repositories in a list of repositories
C8_IdsOf(list) == { created[list[i]] : i \in 1..Len(list) }

\* C8: registerScmProvider with a provider id that is already registered
\* throws, leaves repositories and selectedRepository as they were and fires
\* none of onDidAddRepository, onDidRemoveRepository,
\* onDidChangeSelectedRepository.
C8_DuplicateIdThrows ==
    (last.op = "registerScmProvider" /\ last.arg \in C8_IdsOf(last.preRepositories))
    => (/\ last.threw
        /\ repositoryList(repositories) = last.preRepositories
        /\ selectedRepository = last.preSelected
        /\ last.added = 0
        /\ last.removed = 0
        /\ last.selectionFired = 0)

\* a registration was refused while two repositories were registered
C8_Witness ==
    /\ last.op = "registerScmProvider"
    /\ last.threw
    /\ Len(last.preRepositories) = 2
    /\ selectedRepository # NoRepository

\* C9: a successful registerScmProvider appends the new repository to
\* repositories and fires onDidAddRepository once; it selects the new
\* repository, firing onDidChangeSelectedRepository, exactly when it is the
\* only registered repository afterwards, and otherwise leaves
\* selectedRepository as it was.
C9_RegisterAddsAndSelects ==
    (last.op = "registerScmProvider" /\ ~last.threw)
    => (/\ last.ret \notin Range(last.preRepositories)
        /\ repositoryList(repositories) = Append(last.preRepositories, last.ret)
        /\ last.added = 1
        /\ last.removed = 0
        /\ IF Len(repositories) = 1
           THEN selectedRepository = last.ret /\ last.selectionFired = 1
           ELSE selectedRepository = last.preSelected /\ last.selectionFired = 0)

\* a second repository was registered and the selection stayed on the first
C9_Witness ==
    /\ last.op = "registerScmProvider"
    /\ ~last.threw
    /\ Len(repositories) = 2
    /\ last.preSelected # NoRepository
    /\ selectedRepository = last.preSelected
    /\ selectedRepository # last.ret

\* the repository registered first among those of a non-empty list
C10_Earliest(list) ==
    CHOOSE r \in Range(list) : \A q \in Range(list) : r <= q

\* C10: disposing a repository returned by registerScmProvider removes it from
\* repositories; if it was selected, the selection becomes the
\* earliest-registered remaining repository, or undefined when none remains,
\* and otherwise selectedRepository stays and no
\* onDidChangeSelectedRepository fires.
C10_DisposeReselects ==
    last.op = "dispose" =>
        /\ last.arg \notin Range(repositoryList(repositories))
        /\ IF last.preSelected = last.arg
           THEN /\ last.selectionFired = 1
                /\ selectedRepository =
                       IF repositories = <<>>
                       THEN NoRepository
                       ELSE C10_Earliest(repositoryList(repositories))
           ELSE /\ selectedRepository = last.preSelected
                /\ last.selectionFired = 0

\* the selected repository, not the first registered, was disposed while two
\* others remained
C10_Witness ==
    /\ last.op = "dispose"
    /\ last.preSelected = last.arg
    /\ Len(repositories) = 2
    /\ Len(last.preRepositories) = 3
    /\ last.preRepositories[1] # last.arg
    /\ selectedRepository = last.preRepositories[1]

\* C11: under registrations and disposals of the returned repositories (also
\* repeated disposals and re-registered provider ids), selectedRepository is
\* undefined or one of the repositories of the service.
C11_SelectedIsRegistered ==
    \/ selectedRepository = NoRepository
    \/ selectedRepository \in Range(repositoryList(repositories))

\* C12: under registrations and disposals only, selectedRepository is defined
\* whenever repositories is non-empty.
C12_SelectedWhenNonEmpty ==
    repositories # <<>> => selectedRepository # NoRepository

\* a repository was registered into a registry emptied by a disposal
C12_Witness ==
    /\ last.op = "registerScmProvider"
    /\ ~last.threw
    /\ last.preRepositories = <<>>
    /\ disposedRepositories # {}
    /\ selectedRepository = last.ret

\* the positions of a step in the steps of an operation
C13_Positions(step) == { i \in 1..Len(last.steps) : last.steps[i] = step }

\* step a runs once and before every run of step b
C13_Before(a, b) ==
    /\ Cardinality(C13_Positions(a)) = 1
    /\ \A i \in C13_Positions(a) : \A j \in C13_Positions(b) : i < j

\* C13: disposing a registered repository first removes it from repositories,
\* then runs the repository's own disposal, then fires onDidRemoveRepository,
\* and only after that, if it was selected, changes selectedRepository and
\* fires onDidChangeSelectedRepository.
C13_DisposeOrder ==
    last.op = "dispose" =>
        /\ C13_Before("delete", "dispose")
        /\ C13_Before("dispose", "fireRemove")
        /\ C13_Before("fireRemove", "select")
        /\ C13_Before("fireRemove", "fireSelected")
        /\ last.arg \notin Range(repositoryList(repositories))
        /\ last.arg \in disposedRepositories
        /\ last.removed = 1
        /\ IF last.preSelected = last.arg
           THEN /\ C13_Before("select", "fireSelected")
                /\ Cardinality(C13_Positions("fireSelected")) = 1
           ELSE C13_Positions("select") \cup C13_Positions("fireSelected") = {}

\* the selected repository was disposed while another one stayed registered
C13_Witness ==
    /\ last.op = "dispose"
    /\ last.preSelected = last.arg
    /\ last.arg \in Range(last.preRepositories)
    /\ repositories # <<>>
    /\ selectedRepository # last.arg

\* C14: when the provider's resources change while a resource is selected, the
\* same resource stays selected if it is still in the rebuilt resources, and
\* the selection is cleared if it is not.
C14_SelectionFollowsResource ==
    (last.op = "providerChange" /\ last.preSelected # NoResource)
    => IF last.preSelected \in Range(resources)
       THEN selectedResource = last.preSelected
       ELSE selectedResource = NoResource

\* C15: assigning ScmInput.issue stores the new issue and fires onDidChange
\* exactly once when it differs structurally (type or message, or one of the
\* two is undefined) from the current issue, and does nothing when it is
\* structurally equal, also when undefined is assigned and no issue is set.
C15_IssueAssignment ==
    last.op \in {"setIssue", "validated"} =>
        /\ value = last.preValue
        /\ IF last.arg # last.preIssue
           THEN issue = last.arg /\ last.inputFired = 1
           ELSE issue = last.preIssue /\ last.inputFired = 0 /\ last.fired = 0

\* an issue was replaced by one of the same type with another message
C15_Witness ==
    /\ last.op = "setIssue"
    /\ last.preIssue # NoIssue
    /\ last.arg # last.preIssue
    /\ last.arg.type = last.preIssue.type
    /\ issue = last.arg
    /\ last.inputFired = 1

\* undefined was assigned while no issue was set
C15_WitnessUndefined ==
    /\ last.op = "setIssue"
    /\ last.preIssue = NoIssue
    /\ last.arg = NoIssue
    /\ last.inputFired = 0

\* C16: for an input with a validator, once every validation started by a
\* value assignment has completed, issue is the validator's result for the
\* current value, in whatever order the validations completed.
C16_IssueOfCurrentValue ==
    (hasValidator /\ pending = <<>>) => issue = validator(value)

\* C17: with the Git commit command as accept-input command, the text of the
\* commit box is cleared only if git.commit was invoked and succeeded: after a
\* rejected commit ('No changes added to commit') or a failed git.commit the
\* text the user entered is still there when executeInputCommand finishes.
C17_TextKeptUnlessCommitted ==
    (last.op = "executeInputCommand" /\ last.arg # "committed")
    => value = last.preValue

\* the marker the change list calls for: none without changes, "!" with a
\* conflicted change, "+" with no conflict and every change staged, else "*"
C18_Marker(changes) ==
    IF changes = <<>> THEN <<>>
    ELSE IF \E i \in 1..Len(changes) : changes[i].status = "Conflicted" THEN <<"!">>
    ELSE IF \A i \in 1..Len(changes) : changes[i].staged THEN <<"+">>
    ELSE <<"*">>

\* C18: on each Git status event the branch status bar text carries the dirty
\* marker of the event's change list: after the branch name comes nothing
\* without changes, "!" when a change is conflicted (even if all are staged),
\* "+" when none is conflicted and all are staged, "*" otherwise.
C18_DirtyMarker ==
    (last.op = "gitEvent" /\ last.hasProvider)
    => (/\ scmStatus # <<>>
        /\ statusBarText =
              <<"$(code-fork)", " ">> \o branchName(scmStatus[1])
                  \o C18_Marker(scmStatus[1].changes))

\* an event whose changes are all staged and one of them conflicted
C18_Witness ==
    /\ last.op = "gitEvent"
    /\ last.hasProvider
    /\ scmStatus # <<>>
    /\ Len(scmStatus[1].changes) = 2
    /\ \A i \in 1..2 : scmStatus[1].changes[i].staged
    /\ scmStatus[1].changes[1].status = "Modified"
    /\ scmStatus[1].changes[2].status = "Conflicted"
    /\ statusBarText[Len(statusBarText)] = "!"

====
